---------------------------- MODULE Spec2Model ----------------------------
(***************************************************************************)
(* The manifest-driven component builder (build.py): ComponentBuilder and  *)
(* main.  One run of the command line tool is one behaviour: the manifest  *)
(* document on disk and the argument vector are fixed by Init, every       *)
(* external process ends with an outcome chosen by the environment.        *)
(***************************************************************************)
EXTENDS Integers, Sequences, FiniteSets, TLC

(***************************************************************************)
(* Bounds of the explored inputs.                                          *)
(***************************************************************************)
MaxSteps == 2      \* longest buildSteps / testSteps list that is enumerated
MaxOrder == 2      \* longest buildOrder
MaxChecks == 2     \* most entries of qualityChecks

(***************************************************************************)
(* Python str operations, on TLA+ strings (sequences of characters).       *)
(***************************************************************************)
\* t in s
RECURSIVE FindFrom(_, _, _)
FindFrom(s, t, i) ==
    IF i + Len(t) - 1 > Len(s) THEN 0
    ELSE IF SubSeq(s, i, i + Len(t) - 1) = t THEN i
    ELSE FindFrom(s, t, i + 1)

Contains(s, t) == FindFrom(s, t, 1) # 0

\* s.replace(old, new): every non-overlapping occurrence, left to right
RECURSIVE Replace(_, _, _)
Replace(s, old, new) ==
    LET i == FindFrom(s, old, 1)
    IN  IF i = 0 THEN s
        ELSE SubSeq(s, 1, i - 1) \o new
             \o Replace(SubSeq(s, i + Len(old), Len(s)), old, new)

\* s.split(): the maximal runs of non-blank characters
RECURSIVE SplitFrom(_, _, _)
SplitFrom(s, i, word) ==
    IF i > Len(s) THEN (IF word = "" THEN <<>> ELSE <<word>>)
    ELSE IF SubSeq(s, i, i) = " "
         THEN (IF word = "" THEN <<>> ELSE <<word>>) \o SplitFrom(s, i + 1, "")
         ELSE SplitFrom(s, i + 1, word \o SubSeq(s, i, i))

Split(s) == SplitFrom(s, 1, "")

\* sep.join(parts)
RECURSIVE Join(_, _)
Join(sep, parts) ==
    IF parts = <<>> THEN ""
    ELSE IF Len(parts) = 1 THEN parts[1]
    ELSE parts[1] \o sep \o Join(sep, Tail(parts))

\* x in parts (a list)
InList(x, parts) == \E i \in 1..Len(parts) : parts[i] = x

\* parts[k:], k counted from 0
SliceFrom(parts, k) == SubSeq(parts, k + 1, Len(parts))

\* Path(base) / name
PathJoin(base, name) == base \o "/" \o name


(***************************************************************************)
(* The manifest documents that are explored.  A step is a JSON object: a   *)
(* record whose "command" and "description" fields may be missing.         *)
(***************************************************************************)
BasePath == "crates"
OutputDir == "target"

StepScaffold == [name |-> "create-crate-structure",
                 command |-> "cargo new core --lib",
                 description |-> "Create the crate"]
StepDepsCd == [name |-> "add-dependencies", command |-> "cd core && cargo add serde"]
StepDepsBare == [name |-> "add-dependencies", command |-> "cargo add"]
StepDepsNoCommand == [name |-> "add-dependencies"]
StepBuild == [name |-> "compile", command |-> "cargo build"]
StepCheckCd == [name |-> "check", command |-> "cd core && cargo check",
                description |-> "Type-check the crate"]
StepDocs == [name |-> "docs"]

BuildStepCatalog ==
    {StepScaffold, StepDepsCd, StepDepsBare, StepDepsNoCommand,
     StepBuild, StepCheckCd, StepDocs}

TestUnit == [name |-> "unit", command |-> "cargo test"]
TestFeature == [name |-> "bindings", command |-> "cargo test --features cdylib",
                description |-> "Test the bindings"]
TestDeps == [name |-> "add-dependencies", command |-> "cd core && cargo add mockall"]
TestManual == [name |-> "manual"]

TestStepCatalog == {TestUnit, TestFeature, TestDeps, TestManual}

\* the sequences over S of length at most n
SeqsUpTo(S, n) == UNION {[1..k -> S] : k \in 0..n}

Component(desc, build, test) ==
    [description |-> desc, buildSteps |-> build, testSteps |-> test]

\* components whose step lists are explored in full, one list at a time
RichComponents ==
    {Component("Core library", b, t) :
        b \in SeqsUpTo(BuildStepCatalog, MaxSteps), t \in {<<>>, <<TestUnit>>}}
    \cup
    {Component("Core library", b, t) :
        b \in {<<>>, <<StepBuild>>}, t \in SeqsUpTo(TestStepCatalog, MaxSteps)}
    \cup
    {Component("Core library", <<StepScaffold, StepDepsCd>>, <<TestDeps, TestUnit>>)}

CompPlain ==
    [description |-> "Command line", buildSteps |-> <<StepBuild>>,
     testSteps |-> <<TestUnit>>, variants |-> [fast |-> "No checks"]]
CompWithDeps == Component("Command line", <<StepDepsCd, StepBuild>>, <<>>)

SimpleComponents == {CompPlain, CompWithDeps}

CompNames == {"core", "cli"}
GhostName == "ghost"      \* a name no explored manifest declares

CheckCatalog ==
    {<<"fmt", "cargo fmt --check">>, <<"clippy", "cargo clippy">>,
     <<"test", "cargo test">>}

\* a JSON object of checks: its entries in document order, the names distinct
CheckMaps ==
    {q \in SeqsUpTo(CheckCatalog, MaxChecks) :
        \A i, j \in 1..Len(q) : i # j => q[i][1] # q[j][1]}

DefaultChecks == << <<"fmt", "cargo fmt --check">> >>
DefaultStrategies ==
    [architecture |-> << [name |-> "layered", description |-> "Layer by layer"] >>]
Config == [basePath |-> BasePath, outputDir |-> OutputDir]

ComponentManifests ==
    {[config |-> Config, buildOrder |-> <<"core", "cli">>,
      components |-> [n \in CompNames |-> IF n = "core" THEN c ELSE CompPlain],
      qualityChecks |-> DefaultChecks] : c \in RichComponents}

ComponentMaps ==
    UNION {[S -> SimpleComponents] : S \in SUBSET CompNames}

OrderManifests ==
    {[config |-> Config, buildOrder |-> o, components |-> m,
      qualityChecks |-> DefaultChecks, iterationStrategies |-> DefaultStrategies] :
        o \in SeqsUpTo(CompNames \cup {GhostName}, MaxOrder), m \in ComponentMaps}
    \cup
    {[config |-> Config, components |-> m] : m \in ComponentMaps}

CheckManifests ==
    {[config |-> Config, buildOrder |-> <<"cli">>,
      components |-> [n \in {"cli"} |-> CompPlain],
      qualityChecks |-> q] : q \in CheckMaps}

Manifests == ComponentManifests \cup OrderManifests \cup CheckManifests

\* what open() and json.load() find at build-manifest.json
Disks ==
    {[status |-> "ok", doc |-> m] : m \in Manifests}
    \cup {[status |-> s, doc |-> [config |-> Config]] :
                s \in {"missing", "unreadable", "unparseable"}}

\* sys.argv[1:]
Argvs ==
    {<<>>, <<"build">>, <<"list-variants">>, <<"show-strategies">>,
     <<"quality-check">>, <<"help">>, <<"deploy">>}
    \cup {<<"build", c>> : c \in CompNames \cup {GhostName, ""}}
    \cup {<<"list-variants", c>> : c \in {"core", GhostName, ""}}


(***************************************************************************)
(* State.  disk and argv are the inputs of the run.  trace, attempts and   *)
(* result record what was done; the program never reads them.  out holds   *)
(* the console lines written since the latest run_command began (earlier   *)
(* lines are never read or changed again).                                 *)
(***************************************************************************)
VARIABLES
    disk,       \* the manifest document on disk
    argv,       \* sys.argv[1:]
    builder,    \* <<>> until ComponentBuilder() is constructed, then <<self.manifest>>
    pc,         \* the statement the program is at
    mode,       \* the operation main dispatched to
    comp,       \* component_name of the running build_component
    orderIdx,   \* position of build_all_components in buildOrder
    stepIdx,    \* position of the running loop over buildSteps / testSteps
    checkIdx,   \* position of run_quality_checks in qualityChecks
    proc,       \* <<>>, or <<p>> with p the external process that is running
    result,     \* <<>>, or <<r>> with r how the latest external process ended
    retpc,      \* where the running run_command returns to
    rcResult,   \* <<b>>: what the latest run_command returned
    bcResult,   \* <<b>>: what the latest build_component returned
    opResult,   \* <<b>>: what the dispatched operation returned
    trace,      \* the run_command calls so far, in order: what was run, where,
                \* for which step (kind, index) of which component (owner) at
                \* which place of buildOrder (position, 0 outside a full run)
    attempts,   \* the build_component calls of the full run that returned
    out,        \* console lines
    exitCode,   \* -1 while the process runs, then its exit status
    ending      \* how the process ended: "return", "exit" or the exception raised

vars == <<disk, argv, builder, pc, mode, comp, orderIdx, stepIdx, checkIdx, proc,
          result, retpc, rcResult, bcResult, opResult, trace, attempts, out,
          exitCode, ending>>

Manifest == builder[1]
base_path == Manifest.config.basePath
Components == Manifest.components
PrivilegedNames == {"create-crate-structure", "add-dependencies"}

Init ==
    /\ disk \in Disks
    /\ argv \in Argvs
    /\ builder = <<>>
    /\ pc = "main"
    /\ mode = "none"
    /\ comp = ""
    /\ orderIdx = 0
    /\ stepIdx = 0
    /\ checkIdx = 0
    /\ proc = <<>>
    /\ result = <<>>
    /\ retpc = ""
    /\ rcResult = <<>>
    /\ bcResult = <<>>
    /\ opResult = <<>>
    /\ trace = <<>>
    /\ attempts = <<>>
    /\ out = <<>>
    /\ exitCode = -1
    /\ ending = ""

(***************************************************************************)
(* run_command.  The call prints the progress lines and starts the process *)
(* (subprocess.run); a process that cannot be started raises at once.      *)
(***************************************************************************)
Invocation(command, cwd, kind, idx, status) ==
    [command |-> command, cwd |-> cwd, kind |-> kind, owner |-> comp,
     position |-> orderIdx, index |-> idx, status |-> status]

Progress(command, description) ==
    << <<"progress", description>>, <<"command", command>> >>

\* lines 44-47: any exception of subprocess.run other than a non-zero exit
LaunchFails(command, cwd, description, kind, idx, ret) ==
    /\ proc' = <<>>
    /\ result' = <<>>
    /\ rcResult' = <<FALSE>>
    /\ pc' = ret
    /\ trace' = Append(trace, Invocation(command, cwd, kind, idx, "not-started"))
    /\ out' = Progress(command, description)
              \o << <<"error", description>>, <<"exception">> >>
    /\ UNCHANGED retpc

\* Launches not waiting for the process (Popen instead of run)
Launches_NoWait(command, cwd, description, kind, idx, ret) ==
    /\ Split(command) # <<>>
    /\ proc' = <<[command |-> command, cwd |-> cwd, description |-> description]>>
    /\ result' = <<>>
    /\ rcResult' = <<TRUE>>
    /\ pc' = ret
    /\ trace' = Append(trace, Invocation(command, cwd, kind, idx, "running"))
    /\ out' = Progress(command, description)
    /\ UNCHANGED retpc

\* lines 25-34: the process is started and run_command blocks on it
Launches(command, cwd, description, kind, idx, ret) ==
    /\ Split(command) # <<>>
    /\ proc' = <<[command |-> command, cwd |-> cwd, description |-> description]>>
    /\ result' = <<>>
    /\ rcResult' = <<>>
    /\ pc' = "run_command"
    /\ retpc' = ret
    /\ trace' = Append(trace, Invocation(command, cwd, kind, idx, "running"))
    /\ out' = Progress(command, description)

RunCommand(command, cwd, description, kind, idx, ret) ==
    \/ Launches(command, cwd, description, kind, idx, ret)
    \/ LaunchFails(command, cwd, description, kind, idx, ret)

ReturnCodes == {0, 1}
Stdouts == {"", "done"}

\* ProcessExit without check=True: a non-zero status is not an error
ProcessExit_NoCheck ==
    /\ pc = "run_command"
    /\ \E code \in ReturnCodes, stdout \in Stdouts :
        /\ result' = <<[returncode |-> code, stdout |-> stdout]>>
        /\ out' = IF stdout # "" THEN Append(out, <<"output", stdout>>) ELSE out
        /\ rcResult' = <<TRUE>>
        /\ trace' = [trace EXCEPT ![Len(trace)].status =
                                    IF code = 0 THEN "ok" ELSE "failed"]
    /\ proc' = <<>>
    /\ pc' = retpc
    /\ UNCHANGED <<disk, argv, builder, mode, comp, orderIdx, stepIdx, checkIdx,
                   retpc, bcResult, opResult, attempts, exitCode, ending>>

\* lines 28-43: the process ends; check=True turns a non-zero status into
\* CalledProcessError
ProcessExit ==
    /\ pc = "run_command"
    /\ \E code \in ReturnCodes, stdout \in Stdouts :
        /\ result' = <<[returncode |-> code, stdout |-> stdout]>>
        /\ IF code = 0
           THEN /\ out' = IF stdout # "" THEN Append(out, <<"output", stdout>>) ELSE out
                /\ rcResult' = <<TRUE>>
                /\ trace' = [trace EXCEPT ![Len(trace)].status = "ok"]
           ELSE /\ out' = out \o << <<"failed", proc[1].description>>, <<"stderr">> >>
                /\ rcResult' = <<FALSE>>
                /\ trace' = [trace EXCEPT ![Len(trace)].status = "failed"]
    /\ proc' = <<>>
    /\ pc' = retpc
    /\ UNCHANGED <<disk, argv, builder, mode, comp, orderIdx, stepIdx, checkIdx,
                   retpc, bcResult, opResult, attempts, exitCode, ending>>

\* an exception nothing catches: the traceback is printed, exit status 1
Raise(exception, lines) ==
    /\ pc' = "done"
    /\ exitCode' = 1
    /\ ending' = exception
    /\ out' = Append(lines, <<"traceback", exception>>)


(***************************************************************************)
(* build_component                                                         *)
(***************************************************************************)
Component_ == Components[comp]

\* line 62
ScaffoldCommand(name) == "cargo new " \o name \o " --lib"

\* lines 70-77: the tokens collected from the steps named add-dependencies
RECURSIVE Deps(_, _)
Deps(steps, name) ==
    IF steps = <<>> THEN <<>>
    ELSE LET step == Head(steps)
             cmd_parts == Split(Replace(step.command, "cd " \o name \o " && ", ""))
         IN  (IF step.name = "add-dependencies" /\ InList("add", cmd_parts)
              THEN SliceFrom(cmd_parts, 2)
              ELSE <<>>)
             \o Deps(Tail(steps), name)

\* line 80
DepCommand(name, deps) == "cd " \o name \o " && cargo add " \o Join(" ", deps)

\* line 69
HasDepsStep(steps) == \E i \in 1..Len(steps) : steps[i].name = "add-dependencies"

\* line 75 reads step["command"] of every step named add-dependencies
DepsStepLacksCommand(steps) ==
    \E i \in 1..Len(steps) :
        steps[i].name = "add-dependencies" /\ "command" \notin DOMAIN steps[i]

\* lines 93 and 104
StepCwd(command, name) ==
    IF Contains(command, "cd") THEN PathJoin(base_path, name) ELSE base_path

\* step.get("description", step["name"])
Description(step) ==
    IF "description" \in DOMAIN step THEN step.description ELSE step.name

\* IsRunnableBuildStep without the name filter of line 90
IsRunnableBuildStep_NoFilter(step) == "command" \in DOMAIN step

\* line 90 and line 92
IsRunnableBuildStep(step) ==
    step.name \notin PrivilegedNames /\ "command" \in DOMAIN step

\* IsRunnableTestStep with the name filter of the build loop (line 90)
IsRunnableTestStep_FilterPrivileged(step) ==
    step.name \notin PrivilegedNames /\ "command" \in DOMAIN step

\* line 103
IsRunnableTestStep(step) == "command" \in DOMAIN step

\* return b
BcReturn(b) ==
    /\ bcResult' = <<b>>
    /\ pc' = "bc_return"

\* lines 51-57
BcLookup ==
    /\ pc = "build_component"
    /\ IF comp \notin DOMAIN Components
       THEN /\ out' = Append(out, <<"unknown-component", comp>>)
            /\ BcReturn(FALSE)
       ELSE /\ out' = out \o << <<"building", comp>>,
                                <<"description", Component_.description>> >>
            /\ pc' = "bc_scaffold"
            /\ UNCHANGED bcResult
    /\ UNCHANGED <<disk, argv, builder, mode, comp, orderIdx, stepIdx, checkIdx,
                   proc, result, retpc, rcResult, opResult, trace, attempts,
                   exitCode, ending>>

\* lines 60-65
BcScaffold ==
    /\ pc = "bc_scaffold"
    /\ RunCommand(ScaffoldCommand(comp), base_path,
                  "Create crate structure for " \o comp, "scaffold", 0,
                  "bc_scaffold_ret")
    /\ UNCHANGED <<disk, argv, builder, mode, comp, orderIdx, stepIdx, checkIdx,
                   bcResult, opResult, attempts, exitCode, ending>>

\* BcScaffoldRet without the early return of line 66
BcScaffoldRet_IgnoreFailure ==
    /\ pc = "bc_scaffold_ret"
    /\ pc' = "bc_deps"
    /\ UNCHANGED <<disk, argv, builder, mode, comp, orderIdx, stepIdx, checkIdx,
                   proc, result, retpc, rcResult, bcResult, opResult, trace,
                   attempts, out, exitCode, ending>>

\* lines 61 and 66
BcScaffoldRet ==
    /\ pc = "bc_scaffold_ret"
    /\ IF rcResult = <<TRUE>>
       THEN pc' = "bc_deps" /\ UNCHANGED bcResult
       ELSE BcReturn(FALSE)
    /\ UNCHANGED <<disk, argv, builder, mode, comp, orderIdx, stepIdx, checkIdx,
                   proc, result, retpc, rcResult, opResult, trace, attempts, out,
                   exitCode, ending>>

\* lines 69-85
BcDeps ==
    /\ pc = "bc_deps"
    /\ \E steps \in {Component_.buildSteps} :
           IF ~HasDepsStep(steps)
           THEN /\ pc' = "bc_build"
                /\ stepIdx' = 1
                /\ UNCHANGED <<proc, result, retpc, rcResult, trace, out,
                               exitCode, ending>>
           ELSE IF DepsStepLacksCommand(steps)
           THEN /\ Raise("KeyError", out)
                /\ UNCHANGED <<proc, result, retpc, rcResult, trace, stepIdx>>
           ELSE \E deps \in {Deps(steps, comp)} :
                IF deps = <<>>
                THEN /\ pc' = "bc_build"
                     /\ stepIdx' = 1
                     /\ UNCHANGED <<proc, result, retpc, rcResult, trace, out,
                                    exitCode, ending>>
                ELSE /\ \E cmd \in {DepCommand(comp, deps)} :
                            RunCommand(cmd, base_path,
                                       "Add dependencies for " \o comp, "deps", 0,
                                       "bc_deps_ret")
                     /\ UNCHANGED <<stepIdx, exitCode, ending>>
    /\ UNCHANGED <<disk, argv, builder, mode, comp, orderIdx, checkIdx, bcResult,
                   opResult, attempts>>

\* BcDepsRet running the dependency command again after a failure
BcDepsRet_Retry ==
    /\ pc = "bc_deps_ret"
    /\ IF rcResult = <<TRUE>>
       THEN pc' = "bc_build" /\ stepIdx' = 1
       ELSE pc' = "bc_deps" /\ UNCHANGED stepIdx
    /\ UNCHANGED <<disk, argv, builder, mode, comp, orderIdx, checkIdx, proc,
                   result, retpc, rcResult, bcResult, opResult, trace, attempts,
                   out, exitCode, ending>>

\* lines 81 and 86
BcDepsRet ==
    /\ pc = "bc_deps_ret"
    /\ IF rcResult = <<TRUE>>
       THEN pc' = "bc_build" /\ stepIdx' = 1 /\ UNCHANGED bcResult
       ELSE BcReturn(FALSE) /\ UNCHANGED stepIdx
    /\ UNCHANGED <<disk, argv, builder, mode, comp, orderIdx, checkIdx, proc,
                   result, retpc, rcResult, opResult, trace, attempts, out,
                   exitCode, ending>>

\* BcBuildStep leaving the loop at a step it does not run (break for continue)
BcBuildStep_BreakOnSkip ==
    /\ pc = "bc_build"
    /\ LET steps == Component_.buildSteps
       IN  IF stepIdx > Len(steps) \/ ~IsRunnableBuildStep(steps[stepIdx])
           THEN /\ pc' = "bc_test"
                /\ stepIdx' = 1
                /\ UNCHANGED <<proc, result, retpc, rcResult, trace, out>>
           ELSE /\ RunCommand(steps[stepIdx].command,
                              StepCwd(steps[stepIdx].command, comp),
                              Description(steps[stepIdx]), "build", stepIdx,
                              "bc_build_ret")
                /\ UNCHANGED stepIdx
    /\ UNCHANGED <<disk, argv, builder, mode, comp, orderIdx, checkIdx, bcResult,
                   opResult, attempts, exitCode, ending>>

\* lines 89-98: one iteration of the loop over buildSteps
BcBuildStep ==
    /\ pc = "bc_build"
    /\ LET steps == Component_.buildSteps
       IN  IF stepIdx > Len(steps)
           THEN /\ pc' = "bc_test"
                /\ stepIdx' = 1
                /\ UNCHANGED <<proc, result, retpc, rcResult, trace, out>>
           ELSE IF IsRunnableBuildStep(steps[stepIdx])
           THEN /\ RunCommand(steps[stepIdx].command,
                              StepCwd(steps[stepIdx].command, comp),
                              Description(steps[stepIdx]), "build", stepIdx,
                              "bc_build_ret")
                /\ UNCHANGED stepIdx
           ELSE /\ stepIdx' = stepIdx + 1
                /\ UNCHANGED <<pc, proc, result, retpc, rcResult, trace, out>>
    /\ UNCHANGED <<disk, argv, builder, mode, comp, orderIdx, checkIdx, bcResult,
                   opResult, attempts, exitCode, ending>>

\* BcBuildRet without the early return of line 99
BcBuildRet_IgnoreFailure ==
    /\ pc = "bc_build_ret"
    /\ pc' = "bc_build"
    /\ stepIdx' = stepIdx + 1
    /\ UNCHANGED <<disk, argv, builder, mode, comp, orderIdx, checkIdx, proc,
                   result, retpc, rcResult, bcResult, opResult, trace, attempts,
                   out, exitCode, ending>>

\* lines 94 and 99
BcBuildRet ==
    /\ pc = "bc_build_ret"
    /\ IF rcResult = <<TRUE>>
       THEN pc' = "bc_build" /\ stepIdx' = stepIdx + 1 /\ UNCHANGED bcResult
       ELSE BcReturn(FALSE) /\ UNCHANGED stepIdx
    /\ UNCHANGED <<disk, argv, builder, mode, comp, orderIdx, checkIdx, proc,
                   result, retpc, rcResult, opResult, trace, attempts, out,
                   exitCode, ending>>

\* lines 102-113: one iteration of the loop over testSteps, or the end of it
BcTestStep ==
    /\ pc = "bc_test"
    /\ LET steps == Component_.testSteps
       IN  IF stepIdx > Len(steps)
           THEN /\ out' = Append(out, <<"built", comp>>)
                /\ BcReturn(TRUE)
                /\ UNCHANGED <<stepIdx, proc, result, retpc, rcResult, trace>>
           ELSE IF IsRunnableTestStep(steps[stepIdx])
           THEN /\ RunCommand(steps[stepIdx].command,
                              StepCwd(steps[stepIdx].command, comp),
                              Description(steps[stepIdx]), "test", stepIdx,
                              "bc_test_ret")
                /\ UNCHANGED <<stepIdx, bcResult>>
           ELSE /\ stepIdx' = stepIdx + 1
                /\ UNCHANGED <<pc, proc, result, retpc, rcResult, trace, out,
                               bcResult>>
    /\ UNCHANGED <<disk, argv, builder, mode, comp, orderIdx, checkIdx, opResult,
                   attempts, exitCode, ending>>

\* BcTestRet without the early return of line 110
BcTestRet_IgnoreFailure ==
    /\ pc = "bc_test_ret"
    /\ pc' = "bc_test"
    /\ stepIdx' = stepIdx + 1
    /\ UNCHANGED <<disk, argv, builder, mode, comp, orderIdx, checkIdx, proc,
                   result, retpc, rcResult, bcResult, opResult, trace, attempts,
                   out, exitCode, ending>>

\* BcTestRet running the test step again after a failure
BcTestRet_Retry ==
    /\ pc = "bc_test_ret"
    /\ pc' = "bc_test"
    /\ stepIdx' = IF rcResult = <<TRUE>> THEN stepIdx + 1 ELSE stepIdx
    /\ UNCHANGED <<disk, argv, builder, mode, comp, orderIdx, checkIdx, proc,
                   result, retpc, rcResult, bcResult, opResult, trace, attempts,
                   out, exitCode, ending>>

\* lines 105 and 110
BcTestRet ==
    /\ pc = "bc_test_ret"
    /\ IF rcResult = <<TRUE>>
       THEN pc' = "bc_test" /\ stepIdx' = stepIdx + 1 /\ UNCHANGED bcResult
       ELSE BcReturn(FALSE) /\ UNCHANGED stepIdx
    /\ UNCHANGED <<disk, argv, builder, mode, comp, orderIdx, checkIdx, proc,
                   result, retpc, rcResult, opResult, trace, attempts, out,
                   exitCode, ending>>


(***************************************************************************)
(* build_all_components                                                    *)
(***************************************************************************)
\* lines 117 and 119: the loop reads manifest["buildOrder"]
BuildAllStart ==
    /\ pc = "build_all"
    /\ IF "buildOrder" \in DOMAIN Manifest
       THEN /\ out' = Append(out, <<"full-build">>)
            /\ pc' = "all_loop"
            /\ orderIdx' = 1
            /\ UNCHANGED <<exitCode, ending>>
       ELSE /\ Raise("KeyError", Append(out, <<"full-build">>))
            /\ UNCHANGED orderIdx
    /\ UNCHANGED <<disk, argv, builder, mode, comp, stepIdx, checkIdx, proc,
                   result, retpc, rcResult, bcResult, opResult, trace, attempts>>

\* BuildAllNext leaving the loop one entry early
BuildAllNext_OffByOne ==
    /\ pc = "all_loop"
    /\ IF orderIdx >= Len(Manifest.buildOrder)
       THEN /\ out' = Append(out, <<"all-built">>)
            /\ opResult' = <<TRUE>>
            /\ pc' = "sys_exit"
            /\ UNCHANGED comp
       ELSE /\ comp' = Manifest.buildOrder[orderIdx]
            /\ pc' = "build_component"
            /\ UNCHANGED <<out, opResult>>
    /\ UNCHANGED <<disk, argv, builder, mode, orderIdx, stepIdx, checkIdx, proc,
                   result, retpc, rcResult, bcResult, trace, attempts, exitCode,
                   ending>>

\* lines 119-120 and 124-125: the next entry of buildOrder, or the end of it
BuildAllNext ==
    /\ pc = "all_loop"
    /\ IF orderIdx > Len(Manifest.buildOrder)
       THEN /\ out' = Append(out, <<"all-built">>)
            /\ opResult' = <<TRUE>>
            /\ pc' = "sys_exit"
            /\ UNCHANGED comp
       ELSE /\ comp' = Manifest.buildOrder[orderIdx]
            /\ pc' = "build_component"
            /\ UNCHANGED <<out, opResult>>
    /\ UNCHANGED <<disk, argv, builder, mode, orderIdx, stepIdx, checkIdx, proc,
                   result, retpc, rcResult, bcResult, trace, attempts, exitCode,
                   ending>>

\* BuildAllAfter without the early return of line 122
BuildAllAfter_KeepGoing ==
    /\ pc = "bc_return"
    /\ mode = "all"
    /\ attempts' = Append(attempts, <<comp, bcResult[1]>>)
    /\ orderIdx' = orderIdx + 1
    /\ pc' = "all_loop"
    /\ UNCHANGED <<out, opResult>>
    /\ UNCHANGED <<disk, argv, builder, mode, comp, stepIdx, checkIdx, proc,
                   result, retpc, rcResult, bcResult, trace, exitCode, ending>>

\* lines 120-122: build_component returned to the loop
BuildAllAfter ==
    /\ pc = "bc_return"
    /\ mode = "all"
    /\ attempts' = Append(attempts, <<comp, bcResult[1]>>)
    /\ IF bcResult = <<TRUE>>
       THEN /\ orderIdx' = orderIdx + 1
            /\ pc' = "all_loop"
            /\ UNCHANGED <<out, opResult>>
       ELSE /\ out' = Append(out, <<"failed-to-build", comp>>)
            /\ opResult' = <<FALSE>>
            /\ pc' = "sys_exit"
            /\ UNCHANGED orderIdx
    /\ UNCHANGED <<disk, argv, builder, mode, comp, stepIdx, checkIdx, proc,
                   result, retpc, rcResult, bcResult, trace, exitCode, ending>>

(***************************************************************************)
(* run_quality_checks                                                      *)
(***************************************************************************)
\* line 159
Checks ==
    IF "qualityChecks" \in DOMAIN Manifest THEN Manifest.qualityChecks ELSE <<>>

\* line 157
QcStart ==
    /\ pc = "quality_checks"
    /\ out' = Append(out, <<"quality-checks">>)
    /\ checkIdx' = 1
    /\ pc' = "qc_loop"
    /\ UNCHANGED <<disk, argv, builder, mode, comp, orderIdx, stepIdx, proc,
                   result, retpc, rcResult, bcResult, opResult, trace, attempts,
                   exitCode, ending>>

\* lines 160-165 and 168-169: the next check, or the end of the mapping
QcNext ==
    /\ pc = "qc_loop"
    /\ IF checkIdx > Len(Checks)
       THEN /\ out' = Append(out, <<"checks-passed">>)
            /\ opResult' = <<TRUE>>
            /\ pc' = "sys_exit"
            /\ UNCHANGED <<proc, result, retpc, rcResult, trace>>
       ELSE /\ RunCommand(Checks[checkIdx][2], base_path,
                          "Quality check: " \o Checks[checkIdx][1], "check",
                          checkIdx, "qc_ret")
            /\ UNCHANGED opResult
    /\ UNCHANGED <<disk, argv, builder, mode, comp, orderIdx, stepIdx, checkIdx,
                   bcResult, attempts, exitCode, ending>>

\* QcRet without the early return of line 166
QcRet_IgnoreFailure ==
    /\ pc = "qc_ret"
    /\ checkIdx' = checkIdx + 1
    /\ pc' = "qc_loop"
    /\ UNCHANGED <<disk, argv, builder, mode, comp, orderIdx, stepIdx, proc,
                   result, retpc, rcResult, bcResult, opResult, trace, attempts,
                   out, exitCode, ending>>

\* lines 161 and 166
QcRet ==
    /\ pc = "qc_ret"
    /\ IF rcResult = <<TRUE>>
       THEN /\ checkIdx' = checkIdx + 1
            /\ pc' = "qc_loop"
            /\ UNCHANGED opResult
       ELSE /\ opResult' = <<FALSE>>
            /\ pc' = "sys_exit"
            /\ UNCHANGED checkIdx
    /\ UNCHANGED <<disk, argv, builder, mode, comp, orderIdx, stepIdx, proc,
                   result, retpc, rcResult, bcResult, trace, attempts, out,
                   exitCode, ending>>

(***************************************************************************)
(* list_variants and show_iteration_strategies: what they print            *)
(***************************************************************************)
\* lines 129-143
ListVariantsLines(component_name) ==
    IF component_name # <<>> /\ component_name[1] # ""
    THEN IF component_name[1] \in DOMAIN Components
         THEN << <<"variants-for", component_name[1]>> >>
         ELSE << <<"unknown-component", component_name[1]>> >>
    ELSE << <<"available-variants",
              {n \in DOMAIN Components : "variants" \in DOMAIN Components[n]}>> >>

\* lines 147-153
StrategyLines ==
    << <<"strategies",
         IF "iterationStrategies" \in DOMAIN Manifest
         THEN DOMAIN Manifest.iterationStrategies ELSE {}>> >>

(***************************************************************************)
(* main                                                                    *)
(***************************************************************************)
\* sys.argv[2] if len(sys.argv) > 2 else None
Arg2 == IF Len(argv) > 1 THEN <<argv[2]>> ELSE <<>>

\* the truth value of that expression: None and "" are false
Truthy(component) == component # <<>> /\ component[1] # ""

\* main returns: the interpreter exits with status 0
MainReturns(lines) ==
    /\ out' = lines
    /\ pc' = "done"
    /\ exitCode' = 0
    /\ ending' = "return"

\* MainUsage constructing the ComponentBuilder before the length test
MainUsage_LoadsFirst ==
    /\ pc = "main"
    /\ Len(argv) = 0
    /\ IF disk.status = "ok"
       THEN /\ builder' = <<disk.doc>>
            /\ MainReturns(<< <<"usage">> >>)
       ELSE /\ Raise("OSError", out)
            /\ UNCHANGED builder
    /\ UNCHANGED <<disk, argv, mode, comp, orderIdx, stepIdx, checkIdx, proc,
                   result, retpc, rcResult, bcResult, opResult, trace, attempts>>

\* lines 172-180
MainUsage ==
    /\ pc = "main"
    /\ Len(argv) = 0
    /\ MainReturns(<< <<"usage">> >>)
    /\ UNCHANGED <<disk, argv, builder, mode, comp, orderIdx, stepIdx, checkIdx,
                   proc, result, retpc, rcResult, bcResult, opResult, trace,
                   attempts>>

\* the exception open() or json.load() raises
LoadError(status) ==
    IF status = "missing" THEN "FileNotFoundError"
    ELSE IF status = "unreadable" THEN "PermissionError"
    ELSE "JSONDecodeError"

\* MainLoad swallowing the exception of the constructor
MainLoad_ExitZero ==
    /\ pc = "main"
    /\ Len(argv) > 0
    /\ IF disk.status = "ok"
       THEN /\ builder' = <<disk.doc>>
            /\ pc' = "dispatch"
            /\ UNCHANGED <<out, exitCode, ending>>
       ELSE /\ MainReturns(<< <<"error", LoadError(disk.status)>> >>)
            /\ UNCHANGED builder
    /\ UNCHANGED <<disk, argv, mode, comp, orderIdx, stepIdx, checkIdx, proc,
                   result, retpc, rcResult, bcResult, opResult, trace, attempts>>

\* MainLoad validating buildOrder against the component mapping at load time
MainLoad_RejectsUnknownOrder ==
    /\ pc = "main"
    /\ Len(argv) > 0
    /\ IF disk.status # "ok"
       THEN /\ Raise(LoadError(disk.status), out)
            /\ UNCHANGED builder
       ELSE IF /\ "buildOrder" \in DOMAIN disk.doc
               /\ \E i \in 1..Len(disk.doc.buildOrder) :
                    disk.doc.buildOrder[i] \notin DOMAIN disk.doc.components
       THEN /\ out' = << <<"invalid-manifest">> >>
            /\ pc' = "done"
            /\ exitCode' = 1
            /\ ending' = "exit"
            /\ UNCHANGED builder
       ELSE /\ builder' = <<disk.doc>>
            /\ pc' = "dispatch"
            /\ UNCHANGED <<out, exitCode, ending>>
    /\ UNCHANGED <<disk, argv, mode, comp, orderIdx, stepIdx, checkIdx, proc,
                   result, retpc, rcResult, bcResult, opResult, trace, attempts>>

\* lines 182-183 and 15-20: ComponentBuilder() opens and parses the manifest
MainLoad ==
    /\ pc = "main"
    /\ Len(argv) > 0
    /\ IF disk.status = "ok"
       THEN /\ builder' = <<disk.doc>>
            /\ pc' = "dispatch"
            /\ UNCHANGED <<out, exitCode, ending>>
       ELSE /\ Raise(LoadError(disk.status), out)
            /\ UNCHANGED builder
    /\ UNCHANGED <<disk, argv, mode, comp, orderIdx, stepIdx, checkIdx, proc,
                   result, retpc, rcResult, bcResult, opResult, trace, attempts>>

\* lines 185-190
DispatchBuild ==
    /\ pc = "dispatch"
    /\ argv[1] = "build"
    /\ IF Truthy(Arg2)
       THEN mode' = "single" /\ comp' = Arg2[1] /\ pc' = "build_component"
       ELSE mode' = "all" /\ pc' = "build_all" /\ UNCHANGED comp
    /\ UNCHANGED <<disk, argv, builder, orderIdx, stepIdx, checkIdx, proc, result,
                   retpc, rcResult, bcResult, opResult, trace, attempts, out,
                   exitCode, ending>>

\* line 188: build_component returned to main
BuildSingleAfter ==
    /\ pc = "bc_return"
    /\ mode = "single"
    /\ opResult' = bcResult
    /\ pc' = "sys_exit"
    /\ UNCHANGED <<disk, argv, builder, mode, comp, orderIdx, stepIdx, checkIdx,
                   proc, result, retpc, rcResult, bcResult, trace, attempts, out,
                   exitCode, ending>>

\* lines 193-195
DispatchListVariants ==
    /\ pc = "dispatch"
    /\ argv[1] = "list-variants"
    /\ mode' = "list-variants"
    /\ MainReturns(ListVariantsLines(Arg2))
    /\ UNCHANGED <<disk, argv, builder, comp, orderIdx, stepIdx, checkIdx, proc,
                   result, retpc, rcResult, bcResult, opResult, trace, attempts>>

\* lines 197-198
DispatchShowStrategies ==
    /\ pc = "dispatch"
    /\ argv[1] = "show-strategies"
    /\ mode' = "show-strategies"
    /\ MainReturns(StrategyLines)
    /\ UNCHANGED <<disk, argv, builder, comp, orderIdx, stepIdx, checkIdx, proc,
                   result, retpc, rcResult, bcResult, opResult, trace, attempts>>

\* lines 200-201
DispatchQualityCheck ==
    /\ pc = "dispatch"
    /\ argv[1] = "quality-check"
    /\ mode' = "checks"
    /\ pc' = "quality_checks"
    /\ UNCHANGED <<disk, argv, builder, comp, orderIdx, stepIdx, checkIdx, proc,
                   result, retpc, rcResult, bcResult, opResult, trace, attempts,
                   out, exitCode, ending>>

\* DispatchHelp ending like the unknown-command branch
DispatchHelp_ExitOne ==
    /\ pc = "dispatch"
    /\ argv[1] = "help"
    /\ mode' = "help"
    /\ out' = << <<"help">> >>
    /\ pc' = "done"
    /\ exitCode' = 1
    /\ ending' = "exit"
    /\ UNCHANGED <<disk, argv, builder, comp, orderIdx, stepIdx, checkIdx, proc,
                   result, retpc, rcResult, bcResult, opResult, trace, attempts>>

\* lines 204-219
DispatchHelp ==
    /\ pc = "dispatch"
    /\ argv[1] = "help"
    /\ mode' = "help"
    /\ MainReturns(<< <<"help">> >>)
    /\ UNCHANGED <<disk, argv, builder, comp, orderIdx, stepIdx, checkIdx, proc,
                   result, retpc, rcResult, bcResult, opResult, trace, attempts>>

CommandWords == {"build", "list-variants", "show-strategies", "quality-check", "help"}

\* DispatchUnknown without the sys.exit(1) of line 224
DispatchUnknown_NoExit ==
    /\ pc = "dispatch"
    /\ argv[1] \notin CommandWords
    /\ mode' = "unknown"
    /\ MainReturns(<< <<"unknown-command", argv[1]>>, <<"use-help">> >>)
    /\ UNCHANGED <<disk, argv, builder, comp, orderIdx, stepIdx, checkIdx, proc,
                   result, retpc, rcResult, bcResult, opResult, trace, attempts>>

\* lines 221-224
DispatchUnknown ==
    /\ pc = "dispatch"
    /\ argv[1] \notin CommandWords
    /\ mode' = "unknown"
    /\ out' = << <<"unknown-command", argv[1]>>, <<"use-help">> >>
    /\ pc' = "done"
    /\ exitCode' = 1
    /\ ending' = "exit"
    /\ UNCHANGED <<disk, argv, builder, comp, orderIdx, stepIdx, checkIdx, proc,
                   result, retpc, rcResult, bcResult, opResult, trace, attempts>>

\* lines 191 and 202: sys.exit(0 if success else 1)
SysExit ==
    /\ pc = "sys_exit"
    /\ exitCode' = IF opResult = <<TRUE>> THEN 0 ELSE 1
    /\ ending' = "exit"
    /\ pc' = "done"
    /\ UNCHANGED <<disk, argv, builder, mode, comp, orderIdx, stepIdx, checkIdx,
                   proc, result, retpc, rcResult, bcResult, opResult, trace,
                   attempts, out>>

Next ==
    \/ MainUsage
    \/ MainLoad
    \/ DispatchBuild
    \/ DispatchListVariants
    \/ DispatchShowStrategies
    \/ DispatchQualityCheck
    \/ DispatchHelp
    \/ DispatchUnknown
    \/ BuildSingleAfter
    \/ BuildAllStart
    \/ BuildAllNext
    \/ BuildAllAfter
    \/ BcLookup
    \/ BcScaffold
    \/ BcScaffoldRet
    \/ BcDeps
    \/ BcDepsRet
    \/ BcBuildStep
    \/ BcBuildRet
    \/ BcTestStep
    \/ BcTestRet
    \/ ProcessExit
    \/ QcStart
    \/ QcNext
    \/ QcRet
    \/ SysExit

Spec == Init /\ [][Next]_vars

\* the interpreter keeps executing statements, and every process that was
\* started ends (subprocess.run returns)
FairSpec == Spec /\ WF_vars(Next)


(***************************************************************************)
(* Properties.  They are stated over the document on disk (Doc) and the    *)
(* record of what was run (trace, attempts), not over the operators the    *)
(* actions use.                                                            *)
(***************************************************************************)
Doc == disk.doc
DeclaredOrder == Doc.buildOrder
Declared(name) == Doc.components[name]

\* the invocation returned False: a non-zero exit, or no process at all
Failed(e) == e.status \in {"failed", "not-started"}
NoneFailed == \A k \in 1..Len(trace) : ~Failed(trace[k])

\* a build step the loop of build_component runs; a test step it runs
RunsAsBuildStep(step) ==
    /\ step.name # "create-crate-structure"
    /\ step.name # "add-dependencies"
    /\ "command" \in DOMAIN step
RunsAsTestStep(step) == "command" \in DOMAIN step

\* C1: in a full run, once the component at position i of buildOrder has
\* failed, no command of a later position is ever invoked, no later component
\* is attempted, and build_all_components returns failure.
C1_FailureStopsFullRun ==
    mode = "all" =>
        \A i \in 1..Len(attempts) :
            attempts[i][2] = FALSE =>
                /\ attempts[i][1] = DeclaredOrder[i]
                /\ Len(attempts) = i
                /\ \A k \in 1..Len(trace) : trace[k].position <= i
                /\ opResult = <<FALSE>>
                /\ pc \in {"sys_exit", "done"}

C1_Witness ==
    /\ mode = "all"
    /\ pc = "done"
    /\ Len(attempts) = 1
    /\ attempts[1][2] = FALSE
    /\ \E k \in 1..Len(trace) : Failed(trace[k])
    /\ Len(DeclaredOrder) = 2
    /\ DeclaredOrder[2] \in DOMAIN Doc.components

\* C2: once the command of the build step at position k has failed, nothing
\* more is invoked (no later build step, no test step) and build_component
\* returns failure.
C2_BuildStepFailureStops ==
    \A k \in 1..Len(trace) :
        (trace[k].kind = "build" /\ Failed(trace[k])) =>
            /\ k = Len(trace)
            /\ \/ pc = "bc_build_ret" /\ rcResult = <<FALSE>>
               \/ bcResult = <<FALSE>>

C2_Witness ==
    /\ mode = "single"
    /\ pc = "done"
    /\ bcResult = <<FALSE>>
    /\ comp \in DOMAIN Doc.components
    /\ \E k \in 1..Len(trace) :
        /\ trace[k].kind = "build"
        /\ trace[k].index = 1
        /\ Failed(trace[k])
    /\ Len(Declared(comp).buildSteps) = 2
    /\ RunsAsBuildStep(Declared(comp).buildSteps[2])
    /\ Len(Declared(comp).testSteps) = 1


\* the invocations made for the component at place p of buildOrder (p = 0: the
\* component main was asked for), each as <<kind, index, command>>
Observed(p) ==
    LET made == SelectSeq(trace, LAMBDA e : e.position = p)
    IN  [i \in 1..Len(made) |-> <<made[i].kind, made[i].index, made[i].command>>]

AllSucceeded(p, kinds) ==
    \A k \in 1..Len(trace) :
        (trace[k].position = p /\ trace[k].kind \in kinds) => ~Failed(trace[k])

\* every declared step as <<kind, index, command>>, scaffolding first
AllDeclaredSteps(c) ==
    << <<"scaffold", 0>> >>
    \o [i \in 1..Len(c.buildSteps) |-> <<"build", i>>]
    \o [i \in 1..Len(c.testSteps) |-> <<"test", i>>]

ObservedSteps(p) == [i \in 1..Len(Observed(p)) |-> SubSeq(Observed(p)[i], 1, 2)]

\* C3, as claimed: when every command run for a component succeeds,
\* build_component returns success and the invocations observed are
\* scaffolding, then every entry of buildSteps, then every entry of testSteps.
C3_AllDeclaredStepsObserved ==
    (/\ pc = "bc_return"
     /\ comp \in DOMAIN Doc.components
     /\ AllSucceeded(orderIdx, {"scaffold", "deps", "build", "test"}))
    => /\ bcResult = <<TRUE>>
       /\ ObservedSteps(orderIdx) = AllDeclaredSteps(Declared(comp))

\* the steps build_component runs for component name, in the order it runs them
RunSteps(name, c) ==
    LET buildIdx == SelectSeq([i \in 1..Len(c.buildSteps) |-> i],
                              LAMBDA i : RunsAsBuildStep(c.buildSteps[i]))
        testIdx == SelectSeq([i \in 1..Len(c.testSteps) |-> i],
                             LAMBDA i : RunsAsTestStep(c.testSteps[i]))
    IN  << <<"scaffold", 0, "cargo new " \o name \o " --lib">> >>
        \o (IF Deps(c.buildSteps, name) # <<>>
            THEN << <<"deps", 0, DepCommand(name, Deps(c.buildSteps, name))>> >>
            ELSE <<>>)
        \o [j \in 1..Len(buildIdx) |->
              <<"build", buildIdx[j], c.buildSteps[buildIdx[j]].command>>]
        \o [j \in 1..Len(testIdx) |->
              <<"test", testIdx[j], c.testSteps[testIdx[j]].command>>]

\* C3, amended: when build_component returns for a component of the manifest
\* and every command it invoked succeeded, it returns success and its
\* invocations are, in this order: scaffolding; the aggregate dependency
\* command if the steps named add-dependencies yield a package token; every
\* build step that has a command and neither privileged name, in buildSteps
\* order; every test step that has a command, in testSteps order.
C3_RunStepsObserved ==
    (/\ pc = "bc_return"
     /\ comp \in DOMAIN Doc.components
     /\ AllSucceeded(orderIdx, {"scaffold", "deps", "build", "test"}))
    => /\ bcResult = <<TRUE>>
       /\ Observed(orderIdx) = RunSteps(comp, Declared(comp))

C3_Witness ==
    /\ pc = "bc_return"
    /\ bcResult = <<TRUE>>
    /\ comp \in DOMAIN Doc.components
    /\ Len(Declared(comp).buildSteps) = 2
    /\ Declared(comp).buildSteps[1].name = "create-crate-structure"
    /\ RunsAsBuildStep(Declared(comp).buildSteps[2])
    /\ Len(Declared(comp).testSteps) = 1
    /\ Len(trace) = 3

\* C4, as claimed: a full build of a manifest whose buildOrder is empty or
\* absent returns success and invokes no external command.
C4_EmptyOrAbsentOrderSucceeds ==
    (/\ mode = "all"
     /\ pc = "done"
     /\ ("buildOrder" \notin DOMAIN Doc \/ Doc.buildOrder = <<>>))
    => /\ opResult = <<TRUE>>
       /\ exitCode = 0
       /\ trace = <<>>

\* C5: run_quality_checks invokes the declared checks in document order; the
\* first failing check is the last one invoked, the operation returns failure
\* and the process exits with status 1.
C5_ChecksInOrderStopAtFailure ==
    mode = "checks" =>
        LET declared == IF "qualityChecks" \in DOMAIN Doc
                        THEN Doc.qualityChecks ELSE <<>>
        IN  /\ Len(trace) <= Len(declared)
            /\ \A k \in 1..Len(trace) :
                /\ trace[k].kind = "check"
                /\ trace[k].index = k
                /\ trace[k].command = declared[k][2]
                /\ Failed(trace[k]) =>
                    /\ k = Len(trace)
                    /\ \/ pc = "qc_ret" /\ rcResult = <<FALSE>>
                       \/ opResult = <<FALSE>>
                    /\ pc = "done" => exitCode = 1
            /\ (pc = "done" /\ NoneFailed) => Len(trace) = Len(declared)

C5_Witness ==
    /\ mode = "checks"
    /\ pc = "done"
    /\ exitCode = 1
    /\ Len(Doc.qualityChecks) = 2
    /\ Len(trace) = 1
    /\ trace[1].status = "failed"

\* C6, as claimed: build with a component argument that is no key of the
\* component mapping invokes no external command, build_component returns
\* failure and the process exits with status 1.
C6_UnknownComponentFails ==
    (/\ builder # <<>>
     /\ argv[1] = "build"
     /\ Len(argv) > 1
     /\ argv[2] \notin DOMAIN Doc.components)
    => /\ mode # "all"
       /\ trace = <<>>
       /\ pc = "done" => (bcResult = <<FALSE>> /\ exitCode = 1)

\* C7, as claimed: for build and quality-check the exit status is 0 exactly
\* when the dispatched operation returned success, 1 exactly when it returned
\* failure, and never anything else.
C7_ExitCodeIsResult ==
    (/\ builder # <<>>
     /\ argv[1] \in {"build", "quality-check"}
     /\ pc = "done")
    => /\ exitCode \in {0, 1}
       /\ exitCode = 0 <=> opResult = <<TRUE>>
       /\ exitCode = 1 <=> opResult = <<FALSE>>

\* C8: a full run attempts the entries of buildOrder in order, only the last
\* attempt can have failed, and it returns success exactly when every entry
\* was attempted and every attempt returned success.
C8_FullRunSuccessIffAll ==
    (mode = "all" /\ "buildOrder" \in DOMAIN Doc) =>
        /\ Len(attempts) <= Len(DeclaredOrder)
        /\ \A i \in 1..Len(attempts) :
            /\ attempts[i][1] = DeclaredOrder[i]
            /\ i < Len(attempts) => attempts[i][2] = TRUE
        /\ opResult # <<>> =>
            (opResult = <<TRUE>> <=>
                /\ Len(attempts) = Len(DeclaredOrder)
                /\ \A i \in 1..Len(attempts) : attempts[i][2] = TRUE)

C8_Witness ==
    /\ mode = "all"
    /\ pc = "done"
    /\ opResult = <<TRUE>>
    /\ Len(attempts) = 2
    /\ attempts[1][1] # attempts[2][1]

\* build_component is past its scaffolding call
PastScaffold ==
    \/ pc \in {"bc_scaffold_ret", "bc_deps", "bc_deps_ret", "bc_build",
               "bc_build_ret", "bc_test", "bc_test_ret"}
    \/ pc = "bc_return" /\ comp \in DOMAIN Doc.components

\* C9: for a component of the manifest the first invocation of
\* build_component is the scaffolding command, declared or not; when it fails
\* nothing else is invoked and build_component returns failure.
C9_ScaffoldFirst ==
    mode \in {"single", "all"} =>
        /\ \A k \in 1..Len(trace) :
            /\ (k = 1 \/ trace[k - 1].position # trace[k].position)
                    <=> trace[k].kind = "scaffold"
            /\ trace[k].kind = "scaffold" =>
                /\ trace[k].owner \in DOMAIN Doc.components
                /\ trace[k].command = "cargo new " \o trace[k].owner \o " --lib"
                /\ trace[k].cwd = Doc.config.basePath
                /\ Failed(trace[k]) =>
                    /\ k = Len(trace)
                    /\ \/ pc = "bc_scaffold_ret" /\ rcResult = <<FALSE>>
                       \/ bcResult = <<FALSE>>
        /\ PastScaffold =>
            \E k \in 1..Len(trace) :
                /\ trace[k].kind = "scaffold"
                /\ trace[k].position = orderIdx
                /\ trace[k].owner = comp

C9_Witness ==
    /\ mode = "single"
    /\ pc = "done"
    /\ bcResult = <<FALSE>>
    /\ comp \in DOMAIN Doc.components
    /\ Len(trace) = 1
    /\ Failed(trace[1])
    /\ Len(Declared(comp).buildSteps) = 2
    /\ \A i \in 1..2 : RunsAsBuildStep(Declared(comp).buildSteps[i])

\* C10: a test step is invoked only after scaffolding, the dependency command
\* (when there is one) and every build step that is run have been invoked and
\* succeeded; test steps are invoked in testSteps order; the first failing
\* test step is the last invocation and build_component returns failure.
C10_TestsAfterBuild ==
    mode \in {"single", "all"} =>
        \A k \in 1..Len(trace) :
            trace[k].kind = "test" =>
                LET c == Declared(trace[k].owner)
                    before == {j \in 1..(k - 1) : trace[j].position = trace[k].position}
                IN  /\ \A j \in before : trace[j].status = "ok"
                    /\ \E j \in before : trace[j].kind = "scaffold"
                    /\ Deps(c.buildSteps, trace[k].owner) # <<>> =>
                        \E j \in before : trace[j].kind = "deps"
                    /\ \A i \in 1..Len(c.buildSteps) :
                        RunsAsBuildStep(c.buildSteps[i]) =>
                            \E j \in before :
                                trace[j].kind = "build" /\ trace[j].index = i
                    /\ trace[k].command = c.testSteps[trace[k].index].command
                    /\ \A i \in 1..(trace[k].index - 1) :
                        RunsAsTestStep(c.testSteps[i]) =>
                            \E j \in before :
                                /\ trace[j].kind = "test"
                                /\ trace[j].index = i
                                /\ \A l \in before :
                                    (trace[l].kind = "test" /\ l < j)
                                        => trace[l].index < i
                    /\ Failed(trace[k]) =>
                        /\ k = Len(trace)
                        /\ \/ pc = "bc_test_ret" /\ rcResult = <<FALSE>>
                           \/ bcResult = <<FALSE>>

C10_Witness ==
    /\ mode = "single"
    /\ pc = "done"
    /\ bcResult = <<FALSE>>
    /\ comp \in DOMAIN Doc.components
    /\ Len(Declared(comp).testSteps) = 2
    /\ \A i \in 1..2 : RunsAsTestStep(Declared(comp).testSteps[i])
    /\ \E k \in 1..Len(trace) :
        trace[k].kind = "test" /\ trace[k].index = 1 /\ Failed(trace[k])
    /\ \E k \in 1..Len(trace) : trace[k].kind = "build"


\* the component declares a build step named add-dependencies
DeclaresDepsStep(name) ==
    \E i \in 1..Len(Declared(name).buildSteps) :
        Declared(name).buildSteps[i].name = "add-dependencies"

\* C11, as claimed: for a component with a build step named add-dependencies
\* the aggregate dependency command is invoked exactly once, right after the
\* scaffolding and before any remaining build step; when it fails nothing
\* else is invoked and build_component returns failure.
C11_DepsCommandExactlyOnce ==
    mode \in {"single", "all"} =>
        \A k \in 1..Len(trace) :
            /\ (/\ trace[k].kind = "scaffold"
                /\ trace[k].status = "ok"
                /\ DeclaresDepsStep(trace[k].owner))
               => \/ k = Len(trace) /\ pc \in {"bc_scaffold_ret", "bc_deps"}
                  \/ /\ k < Len(trace)
                     /\ trace[k + 1].kind = "deps"
                     /\ trace[k + 1].position = trace[k].position
            /\ trace[k].kind = "deps" =>
                /\ k > 1
                /\ trace[k - 1].kind = "scaffold"
                /\ trace[k - 1].position = trace[k].position
                /\ Failed(trace[k]) =>
                    /\ k = Len(trace)
                    /\ \/ pc = "bc_deps_ret" /\ rcResult = <<FALSE>>
                       \/ bcResult = <<FALSE>>

\* C12, as claimed: when the manifest document is missing, unreadable or not
\* parseable, every command line ends with a non-zero exit status and no
\* external command is invoked.
C12_UnloadableAlwaysNonZero ==
    disk.status # "ok" =>
        /\ trace = <<>>
        /\ proc = <<>>
        /\ pc = "done" => exitCode # 0

\* C12, amended: when the manifest document is missing, unreadable or not
\* parseable, no external command is invoked and no operation is dispatched;
\* a command line that has a command word ends with exit status 1 and the
\* exception of the load, the command line without a command word ends with
\* the usage text and exit status 0.
C12_UnloadableFailsWithCommandWord ==
    disk.status # "ok" =>
        /\ trace = <<>>
        /\ proc = <<>>
        /\ builder = <<>>
        /\ mode = "none"
        /\ pc \in {"main", "done"}
        /\ pc = "done" =>
            IF Len(argv) > 0
            THEN /\ exitCode = 1
                 /\ ending \in {"FileNotFoundError", "PermissionError",
                                "JSONDecodeError"}
            ELSE /\ exitCode = 0
                 /\ ending = "return"
                 /\ out = << <<"usage">> >>

C12_Witness ==
    /\ disk.status = "unparseable"
    /\ argv = <<"build", "core">>
    /\ pc = "done"
    /\ exitCode = 1
    /\ ending = "JSONDecodeError"

\* the command words main knows
KnownWords == {"build", "list-variants", "show-strategies", "quality-check", "help"}

C15_IntrospectionReadOnly ==
    (/\ disk.status = "ok"
     /\ argv # <<>>
     /\ argv[1] \in {"list-variants", "show-strategies"})
    => /\ trace = <<>>
       /\ proc = <<>>
       /\ pc = "done" =>
            /\ exitCode = 0
            /\ (/\ argv[1] = "list-variants"
                /\ Len(argv) > 1
                /\ argv[2] \notin DOMAIN Doc.components)
               => out[1][1] = "unknown-component"

\* what the latest run_command returned agrees with how its process ended
ReturnMatchesOutcome ==
    /\ rcResult = <<TRUE>> =>
        /\ result # <<>>
        /\ result[1].returncode = 0
        /\ trace # <<>>
        /\ trace[Len(trace)].status = "ok"
    /\ rcResult = <<FALSE>> =>
        /\ trace # <<>>
        /\ \/ /\ trace[Len(trace)].status = "failed"
              /\ result # <<>>
              /\ result[1].returncode # 0
           \/ /\ trace[Len(trace)].status = "not-started"
              /\ result = <<>>
    /\ (result # <<>> /\ result[1].returncode # 0) => rcResult = <<FALSE>>
    /\ (trace # <<>> /\ trace[Len(trace)].status = "not-started")
            => rcResult = <<FALSE>>

\* a step starts a process only together with a new call of run_command
OneProcessPerCall ==
    /\ Len(trace') \in {Len(trace), Len(trace) + 1}
    /\ (proc' # <<>> /\ proc' # proc) =>
        /\ proc = <<>>
        /\ Len(trace') = Len(trace) + 1
        /\ trace'[Len(trace')].command = proc'[1].command
    /\ Len(trace') = Len(trace) =>
        \A k \in 1..Len(trace) :
            /\ trace'[k].command = trace[k].command
            /\ trace[k].status # "running" => trace'[k] = trace[k]

\* C16: run_command returns failure when the process ends with a non-zero
\* status and when it cannot be started, success only on status 0; one call
\* starts at most one process, and a command that failed is the last one
\* invoked: nothing is invoked again after it.
C16_FailureReturnedNeverRetried ==
    /\ [](ReturnMatchesOutcome
          /\ \A k \in 1..Len(trace) : Failed(trace[k]) => k = Len(trace))
    /\ [][OneProcessPerCall]_vars

C16_Witness ==
    /\ pc = "done"
    /\ exitCode = 1
    /\ Len(trace) = 2
    /\ trace[1].status = "ok"
    /\ trace[2].status = "not-started"
    /\ rcResult = <<FALSE>>

\* C17: at most one process is running, it is the one of the latest call of
\* run_command, and that call was made only after every earlier process had
\* ended and its result was found to be a success.
C17_OneProcessAtATime ==
    /\ proc # <<>> <=> pc = "run_command"
    /\ Len(proc) <= 1
    /\ proc # <<>> =>
        /\ trace # <<>>
        /\ trace[Len(trace)].status = "running"
        /\ trace[Len(trace)].command = proc[1].command
        /\ trace[Len(trace)].cwd = proc[1].cwd
        /\ rcResult = <<>>
        /\ result = <<>>
    /\ \A k \in 1..Len(trace) :
        /\ trace[k].status = "running" => (k = Len(trace) /\ proc # <<>>)
        /\ k < Len(trace) => trace[k].status = "ok"

C17_Witness ==
    /\ mode = "all"
    /\ proc # <<>>
    /\ Len(trace) >= 3
    /\ trace[Len(trace)].position = 2
    /\ trace[1].position = 1

\* C18, as claimed: build with a component name drives only that component:
\* every invocation is the scaffolding, dependency, build or test command of
\* the named component, no other component is attempted, and buildOrder is
\* not consulted (a manifest without buildOrder is built like any other).
C18_SingleBuildOnlyNamed ==
    (/\ builder # <<>>
     /\ argv # <<>>
     /\ argv[1] = "build"
     /\ Len(argv) > 1)
    => /\ attempts = <<>>
       /\ \A k \in 1..Len(trace) :
            /\ trace[k].owner = argv[2]
            /\ trace[k].position = 0
            /\ trace[k].kind \in {"scaffold", "deps", "build", "test"}
            /\ trace[k].kind = "scaffold" =>
                trace[k].command = "cargo new " \o argv[2] \o " --lib"
            /\ trace[k].kind = "deps" =>
                LET prefix == "cd " \o argv[2] \o " && cargo add "
                IN  SubSeq(trace[k].command, 1, Len(prefix)) = prefix
            /\ trace[k].kind = "build" =>
                trace[k].command = Declared(argv[2]).buildSteps[trace[k].index].command
            /\ trace[k].kind = "test" =>
                trace[k].command = Declared(argv[2]).testSteps[trace[k].index].command
       /\ (pc = "done" /\ "buildOrder" \notin DOMAIN Doc) => ending = "exit"

\* the tokens that follow the first token add
RECURSIVE TokensAfterAdd(_)
TokensAfterAdd(parts) ==
    IF parts = <<>> THEN <<>>
    ELSE IF Head(parts) = "add" THEN Tail(parts)
    ELSE TokensAfterAdd(Tail(parts))

\* those tokens of every step named add-dependencies, in buildSteps order
RECURSIVE DeclaredPackages(_)
DeclaredPackages(steps) ==
    IF steps = <<>> THEN <<>>
    ELSE (IF Head(steps).name = "add-dependencies"
          THEN TokensAfterAdd(Split(Head(steps).command))
          ELSE <<>>)
         \o DeclaredPackages(Tail(steps))

\* C19, as claimed: the package arguments of the aggregate dependency command
\* are exactly the tokens that follow the add token in the commands of the
\* steps named add-dependencies, concatenated in buildSteps order.
C19_PackagesAreTokensAfterAdd ==
    \A k \in 1..Len(trace) :
        trace[k].kind = "deps" =>
            Split(trace[k].command)
                = <<"cd", trace[k].owner, "&&", "cargo", "add">>
                  \o DeclaredPackages(Declared(trace[k].owner).buildSteps)

\* C20, as claimed: the aggregate dependency command is run with the
\* component's subdirectory, basePath/<component>, as working directory.
C20_DepsRunInComponentDir ==
    \A k \in 1..Len(trace) :
        trace[k].kind = "deps" =>
            trace[k].cwd = Doc.config.basePath \o "/" \o trace[k].owner

\* the command text has a cd command: cd is one of its words
HasCdCommand(command) == \E i \in 1..Len(Split(command)) : Split(command)[i] = "cd"

\* C21, as claimed: a build step of the loop and a test step are run in the
\* component's subdirectory exactly when the command contains a cd command,
\* and in basePath otherwise.
C21_SubdirIffCdCommand ==
    \A k \in 1..Len(trace) :
        trace[k].kind \in {"build", "test"} =>
            trace[k].cwd = IF HasCdCommand(trace[k].command)
                           THEN Doc.config.basePath \o "/" \o trace[k].owner
                           ELSE Doc.config.basePath

\* the step a build or test invocation was made for
StepOf(e) ==
    IF e.kind = "build" THEN Declared(e.owner).buildSteps[e.index]
    ELSE Declared(e.owner).testSteps[e.index]

\* C22, as claimed: the progress line of a call (the description if the step
\* has one, else its name) is written before the process is started, and the
\* captured standard output, when it is not empty, is written after the
\* process ended, whether the command succeeded or failed.
C22_ProgressBeforeOutputAfter ==
    /\ proc # <<>> =>
        /\ out[1] = <<"progress", proc[1].description>>
        /\ \A i \in 1..Len(out) : out[i][1] # "output"
        /\ trace[Len(trace)].kind \in {"build", "test"} =>
            LET step == StepOf(trace[Len(trace)])
            IN  proc[1].description =
                    IF "description" \in DOMAIN step THEN step.description
                    ELSE step.name
    /\ (result # <<>> /\ result[1].stdout # "") =>
        \E i \in 1..Len(out) :
            /\ out[i][1] = "output"
            /\ out[i][2] = result[1].stdout
            /\ \E j \in 1..(i - 1) : out[j][1] = "progress"

\* the component has a step named add-dependencies without a command
LacksDepsCommand(c) ==
    \E i \in 1..Len(c.buildSteps) :
        /\ c.buildSteps[i].name = "add-dependencies"
        /\ "command" \notin DOMAIN c.buildSteps[i]

\* every command of the component at place p of buildOrder was invoked
InvokedAll(p, name) ==
    /\ ~LacksDepsCommand(Declared(name))
    /\ Observed(p) = RunSteps(name, Declared(name))

\* the build run is over: the operation returned, or the process ended
RunEnded == mode \in {"single", "all"} /\ pc \in {"sys_exit", "done"}

\* nothing was cut short: every entry of buildOrder was attempted and every
\* component that was started had all its commands invoked
NothingCutShort ==
    /\ (mode = "all" /\ "buildOrder" \in DOMAIN Doc)
            => Len(attempts) = Len(DeclaredOrder)
    /\ \A k \in 1..Len(trace) : InvokedAll(trace[k].position, trace[k].owner)

\* C23, as claimed: a build run in which no external command returned failure
\* attempts every entry of buildOrder and invokes every command of every
\* component it starts.
C23_OnlyFailureStopsEarly ==
    (RunEnded /\ NoneFailed) => NothingCutShort

\* the name build_component was last called with is no key of the mapping
UnknownComponentReached ==
    \/ mode = "single" /\ comp \notin DOMAIN Doc.components
    \/ /\ mode = "all"
       /\ attempts # <<>>
       /\ attempts[Len(attempts)] = <<comp, FALSE>>
       /\ comp \notin DOMAIN Doc.components

\* C23, amended: a build run that ends without having attempted every entry
\* of buildOrder, or without having invoked every command of a component it
\* started, had an external command that returned failure, or reached a
\* component name absent from the component mapping, or was ended by an
\* uncaught KeyError (a step named add-dependencies without a command, a
\* manifest without buildOrder).
C23_EarlyStopHasCause ==
    (RunEnded /\ NoneFailed) =>
        \/ ending = "KeyError"
        \/ UnknownComponentReached
        \/ NothingCutShort

C23_Witness ==
    /\ mode = "all"
    /\ pc = "done"
    /\ trace = <<>>
    /\ Len(attempts) = 1
    /\ Len(DeclaredOrder) = 2
    /\ DeclaredOrder[1] \notin DOMAIN Doc.components
    /\ DeclaredOrder[2] \in DOMAIN Doc.components

\* console lines: the diagnostic text of a command, a report of failure, the
\* summary of a component execution, the summary of a full run
DiagnosticLines == {"stderr", "exception"}
FailureLines == {"failed", "error", "failed-to-build"}
ComponentSummaryLines == {"built", "failed-to-build", "unknown-component"}
RunSummaryLines == {"all-built", "failed-to-build"}

\* C24, as claimed: the diagnostic text of a failed command (the captured
\* stderr, the launch error) is printed before every message that reports the
\* failure, and a pass/fail summary line is printed after every component
\* execution and after every full run.
C24_DiagnosticThenFailureThenSummary ==
    /\ \A i, j \in 1..Len(out) :
        (out[i][1] \in DiagnosticLines /\ out[j][1] \in FailureLines) => i < j
    /\ (mode \in {"single", "all"} /\ pc = "sys_exit") =>
        /\ \E i \in 1..Len(out) :
            out[i][1] \in ComponentSummaryLines /\ out[i][2] = comp
        /\ mode = "all" => out[Len(out)][1] \in RunSummaryLines

\* the command line asks for a full run
FullRunAsked ==
    /\ argv # <<>>
    /\ argv[1] = "build"
    /\ (Len(argv) = 1 \/ argv[2] = "")

\* buildOrder has an entry that is no key of the component mapping
HasAbsentEntry ==
    /\ "buildOrder" \in DOMAIN Doc
    /\ \E i \in 1..Len(DeclaredOrder) : DeclaredOrder[i] \notin DOMAIN Doc.components

\* the place of the first such entry
FirstAbsent ==
    CHOOSE i \in 1..Len(DeclaredOrder) :
        /\ DeclaredOrder[i] \notin DOMAIN Doc.components
        /\ \A j \in 1..(i - 1) : DeclaredOrder[j] \in DOMAIN Doc.components

\* C25: a buildOrder entry that names no component of the mapping is not
\* rejected when the manifest is loaded.  In a full run no command is ever
\* invoked for that entry or a later one; when the entry is reached, every
\* component before it was executed completely and with success, and the run
\* fails there with the unknown-component message, exit status 1; a run in
\* which no command fails does reach it.
C25_AbsentEntryFailsWhenReached ==
    (disk.status = "ok" /\ FullRunAsked /\ HasAbsentEntry) =>
        /\ \A k \in 1..Len(trace) :
            /\ trace[k].position < FirstAbsent
            /\ trace[k].owner = DeclaredOrder[trace[k].position]
        /\ Len(attempts) <= FirstAbsent
        /\ Len(attempts) = FirstAbsent =>
            /\ attempts[FirstAbsent] = <<DeclaredOrder[FirstAbsent], FALSE>>
            /\ NoneFailed
            /\ \A p \in 1..(FirstAbsent - 1) :
                /\ attempts[p] = <<DeclaredOrder[p], TRUE>>
                /\ InvokedAll(p, DeclaredOrder[p])
            /\ pc \in {"sys_exit", "done"}
            /\ opResult = <<FALSE>>
            /\ \E i \in 1..Len(out) :
                out[i] = <<"unknown-component", DeclaredOrder[FirstAbsent]>>
            /\ pc = "done" => exitCode = 1
        /\ (pc = "done" /\ ending = "exit" /\ NoneFailed)
                => Len(attempts) = FirstAbsent

C25_Witness ==
    /\ mode = "all"
    /\ pc = "done"
    /\ exitCode = 1
    /\ "buildOrder" \in DOMAIN Doc
    /\ Len(DeclaredOrder) = 2
    /\ DeclaredOrder[1] \in DOMAIN Doc.components
    /\ DeclaredOrder[2] \notin DOMAIN Doc.components
    /\ Len(attempts) = 2
    /\ Len(trace) >= 2

\* The invocations, as <<command, working directory>>, of the run in which
\* every command succeeds: of one component, of the entries of buildOrder,
\* of the quality checks, of the whole command line.
ComponentSequence(name) ==
    LET c == Declared(name)
        base == Doc.config.basePath
        Cwd(kind, command) ==
            IF kind \in {"build", "test"} /\ Contains(command, "cd")
            THEN base \o "/" \o name ELSE base
        steps == RunSteps(name, c)
    IN  IF LacksDepsCommand(c)
        THEN << <<"cargo new " \o name \o " --lib", base>> >>
        ELSE [i \in 1..Len(steps) |-> <<steps[i][3], Cwd(steps[i][1], steps[i][3])>>]

\* that run stops at this entry: unknown component, or the KeyError of line 75
StopsRun(name) ==
    \/ name \notin DOMAIN Doc.components
    \/ LacksDepsCommand(Declared(name))

RECURSIVE OrderSequence(_)
OrderSequence(order) ==
    IF order = <<>> \/ Head(order) \notin DOMAIN Doc.components THEN <<>>
    ELSE ComponentSequence(Head(order))
         \o (IF StopsRun(Head(order)) THEN <<>> ELSE OrderSequence(Tail(order)))

CheckSequence ==
    LET declared == IF "qualityChecks" \in DOMAIN Doc THEN Doc.qualityChecks ELSE <<>>
    IN  [i \in 1..Len(declared) |-> <<declared[i][2], Doc.config.basePath>>]

SuccessSequence ==
    IF argv[1] = "quality-check" THEN CheckSequence
    ELSE IF ~FullRunAsked
    THEN (IF argv[2] \in DOMAIN Doc.components
          THEN ComponentSequence(argv[2]) ELSE <<>>)
    ELSE IF "buildOrder" \in DOMAIN Doc THEN OrderSequence(DeclaredOrder)
    ELSE <<>>

\* the exit status of that run
SuccessExit ==
    IF argv[1] = "quality-check" THEN 0
    ELSE IF ~FullRunAsked THEN (IF StopsRun(argv[2]) THEN 1 ELSE 0)
    ELSE IF "buildOrder" \notin DOMAIN Doc THEN 1
    ELSE IF \E i \in 1..Len(DeclaredOrder) : StopsRun(DeclaredOrder[i]) THEN 1
    ELSE 0

Invocations == [k \in 1..Len(trace) |-> <<trace[k].command, trace[k].cwd>>]

\* C26: the invocations of a build or quality-check run are a prefix of those
\* of the run of the same manifest in which every command succeeds; the run
\* goes on exactly until the first command that fails, so the outcomes of the
\* commands determine the invocation sequence, and they determine the exit
\* status: 1 after a failure, else that of the all-success run.
C26_FailureOnlyTruncates ==
    (disk.status = "ok" /\ argv # <<>> /\ argv[1] \in {"build", "quality-check"}) =>
        /\ \A k \in 1..Len(trace) : Failed(trace[k]) => k = Len(trace)
        /\ trace # <<>> =>
            LET expected == SuccessSequence
            IN  /\ Len(Invocations) <= Len(expected)
                /\ Invocations = SubSeq(expected, 1, Len(Invocations))
        /\ pc = "done" =>
            /\ NoneFailed => (Invocations = SuccessSequence /\ exitCode = SuccessExit)
            /\ ~NoneFailed => exitCode = 1

C26_Witness ==
    /\ mode = "all"
    /\ pc = "done"
    /\ exitCode = 1
    /\ Len(trace) = 2
    /\ Failed(trace[2])
    /\ trace[2].kind = "deps"
    /\ Len(SuccessSequence) > 4

\* the component declares a build step or a test step without a command
HasCommandlessStep(c) ==
    \/ \E i \in 1..Len(c.buildSteps) : "command" \notin DOMAIN c.buildSteps[i]
    \/ \E i \in 1..Len(c.testSteps) : "command" \notin DOMAIN c.testSteps[i]

\* C27, as claimed: a build step or test step without a command field is
\* skipped: nothing is invoked for it, and when no command fails the component
\* still returns success with every step that is run invoked, the steps after
\* the skipped one included.
C27_CommandlessStepSkipped ==
    /\ \A k \in 1..Len(trace) :
        trace[k].kind \in {"build", "test"} => "command" \in DOMAIN StepOf(trace[k])
    /\ (/\ mode = "single"
        /\ pc = "done"
        /\ comp \in DOMAIN Doc.components
        /\ HasCommandlessStep(Declared(comp))
        /\ NoneFailed)
       => /\ bcResult = <<TRUE>>
          /\ exitCode = 0
          /\ \A i \in 1..Len(Declared(comp).buildSteps) :
                RunsAsBuildStep(Declared(comp).buildSteps[i]) =>
                    \E k \in 1..Len(trace) :
                        trace[k].kind = "build" /\ trace[k].index = i
          /\ \A i \in 1..Len(Declared(comp).testSteps) :
                RunsAsTestStep(Declared(comp).testSteps[i]) =>
                    \E k \in 1..Len(trace) :
                        trace[k].kind = "test" /\ trace[k].index = i

\* the two step names build_component treats specially
SpecialNames == {"create-crate-structure", "add-dependencies"}

\* C28: no invocation of the build loop is ever made for a build step named
\* create-crate-structure or add-dependencies; the scaffolding invocation is
\* `cargo new <component> --lib` in basePath whatever the manifest declares;
\* a test step with one of these names is run like any other test step: with
\* its declared command, after every earlier test step that has a command.
C28_SpecialNamesOnlyInBuildSteps ==
    \A k \in 1..Len(trace) :
        /\ trace[k].kind = "build" => StepOf(trace[k]).name \notin SpecialNames
        /\ trace[k].kind = "scaffold" =>
            /\ trace[k].command = "cargo new " \o trace[k].owner \o " --lib"
            /\ trace[k].cwd = Doc.config.basePath
            /\ \A j \in 1..Len(trace) :
                (trace[j].kind = "scaffold" /\ trace[j].position = trace[k].position)
                    => j = k
        /\ trace[k].kind = "test" =>
            /\ trace[k].command = StepOf(trace[k]).command
            /\ \A i \in 1..(trace[k].index - 1) :
                "command" \in DOMAIN Declared(trace[k].owner).testSteps[i] =>
                    \E j \in 1..(k - 1) :
                        /\ trace[j].kind = "test"
                        /\ trace[j].index = i
                        /\ trace[j].position = trace[k].position
                        /\ trace[j].command =
                                Declared(trace[k].owner).testSteps[i].command

C28_Witness ==
    /\ pc = "bc_return"
    /\ bcResult = <<TRUE>>
    /\ comp \in DOMAIN Doc.components
    /\ Len(Declared(comp).buildSteps) = 2
    /\ Declared(comp).buildSteps[1].name = "create-crate-structure"
    /\ "command" \in DOMAIN Declared(comp).buildSteps[1]
    /\ Declared(comp).buildSteps[2].name = "add-dependencies"
    /\ Len(Declared(comp).testSteps) = 2
    /\ Declared(comp).testSteps[1].name = "add-dependencies"
    /\ \E k \in 1..Len(trace) :
        /\ trace[k].kind = "test"
        /\ trace[k].index = 1
        /\ trace[k].command = Declared(comp).testSteps[1].command
    /\ \A k \in 1..Len(trace) : trace[k].kind # "build"

\* the most invocations one build_component call makes according to the claim
InvocationBound(name) ==
    IF name \in DOMAIN Doc.components
    THEN 2 + Len(Declared(name).buildSteps) + Len(Declared(name).testSteps)
    ELSE 2

RECURSIVE SumOfBounds(_)
SumOfBounds(order) ==
    IF order = <<>> THEN 0
    ELSE InvocationBound(Head(order)) + SumOfBounds(Tail(order))

InvocationsWithinBounds ==
    mode \in {"single", "all"} =>
        /\ \A k \in 1..Len(trace) :
            Cardinality({j \in 1..Len(trace) : trace[j].position = trace[k].position})
                <= InvocationBound(trace[k].owner)
        /\ mode = "single" => Len(trace) <= InvocationBound(comp)
        /\ (mode = "all" /\ "buildOrder" \in DOMAIN Doc)
                => Len(trace) <= SumOfBounds(DeclaredOrder)

\* C29: when every started process ends, every command line ends with an
\* exit status (0 or 1); one build_component call makes at most
\* 2 + |buildSteps| + |testSteps| invocations and a full run at most the sum
\* of that bound over the entries of buildOrder.
C29_TerminatesWithinBounds ==
    /\ <>(pc = "done" /\ exitCode \in {0, 1})
    /\ [](InvocationsWithinBounds /\ (pc = "done" <=> exitCode \in {0, 1}))

\* a full run of two components that ran every step it could: the scaffold
\* command and each declared step once, one short of the bound per component
C29_Witness ==
    /\ argv = <<"build">>
    /\ mode = "all"
    /\ pc = "done"
    /\ exitCode = 0
    /\ "buildOrder" \in DOMAIN Doc
    /\ Len(DeclaredOrder) = 2
    /\ Len(trace) = SumOfBounds(DeclaredOrder) - 2
    /\ Len(trace) > 4

\* the command word has been examined: one of the branches of lines 185-224
\* was taken
WordExamined == mode # "none"

\* C30: without a command word the run prints the usage text and ends with
\* exit status 0, the manifest never loaded and no external command invoked;
\* with a command word the manifest is loaded before the word is examined,
\* and a manifest that cannot be loaded ends the run with the word unexamined.
C30_UsageWithoutLoadElseLoadFirst ==
    /\ argv = <<>> =>
        /\ builder = <<>>
        /\ trace = <<>>
        /\ proc = <<>>
        /\ ~WordExamined
        /\ pc \in {"main", "done"}
        /\ pc = "done" =>
            /\ exitCode = 0
            /\ ending = "return"
            /\ out = << <<"usage">> >>
    /\ argv # <<>> =>
        /\ WordExamined => (disk.status = "ok" /\ builder = <<disk.doc>>)
        /\ pc \notin {"main", "done"} => builder = <<disk.doc>>
        /\ (pc = "done" /\ ~WordExamined) =>
            /\ disk.status # "ok"
            /\ builder = <<>>
            /\ exitCode = 1
            /\ ending = LoadError(disk.status)

\* the usage text is printed although no manifest exists
C30_Witness ==
    /\ argv = <<>>
    /\ disk.status = "missing"
    /\ pc = "done"
    /\ exitCode = 0
    /\ out = << <<"usage">> >>

============================================================================
